---- MODULE Spec2Model ----
(***************************************************************************)
(* django-unicorn: assembly of the response to a component message.        *)
(*                                                                         *)
(* ComponentResponse.get_data (src/django_unicorn/views/response.py) on a   *)
(* tree of UnicornView components: the recursive call collector, the       *)
(* not-modified short-circuit, the meta string, and the walk up the        *)
(* ancestors that re-renders every force_render parent.                    *)
(***************************************************************************)
EXTENDS Integers, Sequences, FiniteSets, TLC

\* Largest component tree of the response specifications.
MaxNodes == 3
\* Largest component tree of the call-collector specification.
MaxTreeNodes == 4
\* Most calls pending in a tree of the call-collector specification.
MaxCalls == 2

\* Python's None where a string is expected, and the empty string.
None == "None"
EmptyStr == ""
\* Python's None where markup (a sequence of elements) is expected.
NoneMarkup == << >>
\* "No parent": component.parent is None.
NoParent == 0

VARIABLES
    parent,        \* component id -> id of component.parent, or NoParent
    children,      \* component id -> component.children, in insertion order
    calls,         \* component id -> component.calls, pending JavaScript calls
    force_render,  \* component id -> component.force_render
    is_editing,    \* component id -> the component's public field
    hash_caching,  \* whether render() leaves _content_hash on the component
    response,      \* the outcome of ComponentResponse.get_data, with its inputs
    cache,         \* the external cache: component id -> cached snapshot
    pc,            \* position of the message request
    resolved       \* the component last returned by UnicornView.create

vars == << parent, children, calls, force_render, is_editing, hash_caching,
           response, cache, pc, resolved >>

Components == DOMAIN parent

(***************************************************************************)
(* Collaborators of response.py: checksum, serializer, template rendering. *)
(***************************************************************************)

\* utils.generate_checksum: a deterministic digest, distinct for distinct input.
generate_checksum(value) == "sha:" \o ToString(value)

\* Alphabetical order of the keys of the dictionaries of the model.
KeyOrder == << "count", "is_editing", "name" >>

KeyRank(key) == CHOOSE i \in 1..Len(KeyOrder) : KeyOrder[i] = key

RECURSIVE insert_sorted(_, _)
insert_sorted(item, items) ==
    IF items = << >> THEN << item >>
    ELSE IF KeyRank(item[1]) <= KeyRank(Head(items)[1]) THEN << item >> \o items
    ELSE << Head(items) >> \o insert_sorted(item, Tail(items))

\* {key: data[key] for key in sorted(data)}: a dict is a sequence of
\* <<key, value>> items in insertion order.
RECURSIVE sorted_dict(_)
sorted_dict(data) ==
    IF data = << >> THEN << >>
    ELSE insert_sorted(Head(data), sorted_dict(Tail(data)))

\* component.get_frontend_context_variables(): the public fields, serialized.
get_frontend_context_variables(component) ==
    << "json", << << "is_editing", is_editing[component] >> >> >>

\* serializer.loads: the dictionary a serialized document holds.
loads(document) == document[2]

\* The unicorn:meta that render() itself puts on a component's root element.
render_meta(component) ==
    generate_checksum(<< "rendered", loads(get_frontend_context_variables(component)) >>)

\* component.render(): the markup, as its elements in document order.  The
\* root element carries the component's unicorn:id; the template embeds every
\* child except `omitted`, the one whose template tag is not rendered.
RECURSIVE render(_, _)
RECURSIVE render_children(_, _, _)
render(component, omitted) ==
    << [uid |-> component, meta |-> render_meta(component)] >>
        \o render_children(component, 1, omitted)
render_children(component, i, omitted) ==
    IF i > Len(children[component]) THEN << >>
    ELSE LET child == children[component][i] IN
         (IF child = omitted THEN << >> ELSE render(child, omitted))
            \o render_children(component, i + 1, omitted)

\* get_root_element(markup): the root element is the first in document order;
\* the handle gives access to the whole parsed markup.
get_root_element(markup) == markup

\* html_element_to_string(root_element): the markup of the parsed tree.
html_element_to_string(root_element) == root_element

\* root_element.set("unicorn:meta", value)
set_root_meta(root_element, value) ==
    [root_element EXCEPT ![1].meta = value]

\* getattr(component, "_content_hash", ""): set by render() when it caches.
content_hash_attr(component) ==
    IF hash_caching THEN generate_checksum(<< "content", component >>) ELSE EmptyStr

(***************************************************************************)
(* ComponentResponse._collect_all_calls                                    *)
(***************************************************************************)

RECURSIVE collect_calls_from_component(_)
RECURSIVE collect_calls_from_children(_, _)
\* for child in component.children: child.calls, then the child's descendants.
collect_calls_from_component(component) ==
    collect_calls_from_children(component, 1)
collect_calls_from_children(component, i) ==
    IF i > Len(children[component]) THEN << >>
    ELSE LET child == children[component][i] IN
         calls[child] \o collect_calls_from_component(child)
            \o collect_calls_from_children(component, i + 1)

RECURSIVE direct_children_calls(_, _)
direct_children_calls(component, i) ==
    IF i > Len(children[component]) THEN << >>
    ELSE calls[children[component][i]] \o direct_children_calls(component, i + 1)

\* A collector that stops at the children: grandchildren's calls are lost.
collect_all_calls_shallow(component) ==
    calls[component] \o direct_children_calls(component, 1)

collect_all_calls(component) ==
    calls[component] \o collect_calls_from_component(component)

(***************************************************************************)
(* ComponentResponse.get_data                                              *)
(***************************************************************************)

\* component.errors: the action handlers of the model record no errors.
errors(component) == << >>

\* component.last_rendered_dom: the view renders the acted-on component with
\* all of its own children before it builds the response.
last_rendered_dom(component) == render(component, NoParent)

\* Python truthiness of the value a method returned.
truthy(value) == value \notin { None, "0", EmptyStr }

\* A short-circuit that never looks at the returned value.
return_blocks_short_circuit_never(return_data) == FALSE

\* The negation of `not self.return_data or not self.return_data.value`.
return_blocks_short_circuit(return_data) ==
    return_data.present /\ truthy(return_data.value)

\* rendered_component_hash: the cached _content_hash, else the checksum of
\* the last rendered markup.
rendered_component_hash(component) ==
    IF content_hash_attr(component) = EmptyStr
    THEN generate_checksum(last_rendered_dom(component))
    ELSE content_hash_attr(component)

\* The condition of the not-modified branch.
render_unmodified(component, request, return_data) ==
    /\ request.hash = rendered_component_hash(component)
    /\ ~ return_blocks_short_circuit(return_data)
    /\ collect_all_calls(component) = << >>

\* A short-circuit that forgets the force_render flag.
raises_not_modified_ignoring_force_render(component) ==
    parent[component] = NoParent

\* `not self.component.parent and self.component.force_render is False`
raises_not_modified(component) ==
    parent[component] = NoParent /\ force_render[component] = FALSE

\* The two-part meta kept when the render is unmodified but still returned.
full_meta_two_part_when_unmodified(component, request, return_data, data_checksum) ==
    IF render_unmodified(component, request, return_data)
    THEN << data_checksum, EmptyStr, request.epoch >>
    ELSE << data_checksum, rendered_component_hash(component), request.epoch >>

\* f"{data_checksum}:{rendered_component_hash}:{epoch}", as its three parts.
full_meta(component, request, return_data, data_checksum) ==
    << data_checksum, rendered_component_hash(component), request.epoch >>

\* The data of the request, sorted by key when it is not empty.
request_data(request) ==
    IF request.data # << >> THEN sorted_dict(request.data) ELSE request.data

\* The root element of the acted-on component, stamped with the data checksum.
stamped_root_element(component, request) ==
    set_root_meta(get_root_element(last_rendered_dom(component)),
                  generate_checksum(request_data(request)))

\* The result before the walk up the ancestors: lines 58-127.
base_result(component, request, return_data, partials) ==
    LET data == request_data(request)
        data_checksum == generate_checksum(data)
        result == [ id |-> request.id,
                    data |-> data,
                    errors |-> errors(component),
                    calls |-> collect_all_calls(component),
                    meta |-> << data_checksum, EmptyStr, request.epoch >> ]
        rendered ==
            IF partials # << >>
            THEN ("partials" :> partials) @@ result
            ELSE ("dom" :> html_element_to_string(stamped_root_element(component, request)))
                 @@ ("meta" :> full_meta(component, request, return_data, data_checksum))
                 @@ result
        returned ==
            IF return_data.present
            THEN ("return" :> [value |-> return_data.value])
                 @@ (IF return_data.redirect # None
                     THEN ("redirect" :> return_data.redirect) ELSE << >>)
                 @@ (IF return_data.poll # None
                     THEN ("poll" :> return_data.poll) ELSE << >>)
                 @@ rendered
            ELSE rendered
    IN returned

\* The stamp put on the rendered ancestor's own nested element instead.
stamp_child_previous_ancestor(parent_soup, child_unicorn_id, child_meta, below) ==
    [ i \in DOMAIN parent_soup |->
        IF parent_soup[i].uid = below /\ i # 1
        THEN [ parent_soup[i] EXCEPT !.meta = child_meta ]
        ELSE parent_soup[i] ]

\* Lines 159-166: the child's meta is copied onto the root of the parent
\* markup when that root has the child's unicorn:id, else onto every element
\* of the markup that has it.  `below` is self.component, the node beneath
\* the parent, which the code does not use here.
stamp_child(parent_soup, child_unicorn_id, child_meta, below) ==
    IF parent_soup[1].uid = child_unicorn_id
    THEN set_root_meta(parent_soup, child_meta)
    ELSE [ i \in DOMAIN parent_soup |->
             IF parent_soup[i].uid = child_unicorn_id
             THEN [ parent_soup[i] EXCEPT !.meta = child_meta ]
             ELSE parent_soup[i] ]

\* The child markup left in the payload beside the parent's.
remove_child_dom_never(levels) == levels

\* result["dom"] = None: always the top level of the payload.
remove_child_dom(levels) == [ levels EXCEPT ![1] = ("dom" :> NoneMarkup) @@ levels[1] ]

\* A walk that adds an entry for every ancestor.
adds_parent_entry_always(parent_component) == TRUE

\* `if parent_component.force_render is True`
adds_parent_entry(parent_component) == force_render[parent_component] = TRUE

\* The parent entry of one force_render ancestor: lines 135-191.
parent_entry(parent_component, below, levels, root_element, rendered_component, request, partials, omitted) ==
    LET parent_frontend_context_variables ==
            loads(get_frontend_context_variables(parent_component))
        parent_checksum ==
            generate_checksum(ToString(parent_frontend_context_variables))
        entry == [ id |-> parent_component,
                   meta |-> << parent_checksum, EmptyStr, request.epoch >> ]
        parent_dom == render(parent_component, omitted)
        element == IF root_element = NoneMarkup
                   THEN get_root_element(rendered_component)
                   ELSE root_element
        child_meta == element[1].meta
        child_unicorn_id == element[1].uid
        parent_soup == stamp_child(get_root_element(parent_dom),
                                   child_unicorn_id, child_meta, below)
        parent_dom_hash ==
            IF content_hash_attr(parent_component) = EmptyStr
            THEN generate_checksum(html_element_to_string(parent_soup))
            ELSE content_hash_attr(parent_component)
    IN IF partials = << >>
       THEN [ id |-> parent_component,
              meta |-> << parent_checksum, parent_dom_hash, request.epoch >>,
              dom |-> html_element_to_string(set_root_meta(parent_soup, parent_checksum)),
              data |-> parent_frontend_context_variables,
              errors |-> errors(parent_component) ]
       ELSE entry

\* The while loop of lines 132-202.  levels[1] is `result`, levels[k + 1] is
\* the "parent" entry nested in levels[k], and the last level is
\* `parent_result`; `below` is self.component.
RECURSIVE ancestor_walk(_, _, _, _, _, _, _, _)
ancestor_walk(parent_component, below, levels, root_element, rendered_component, request, partials, omitted) ==
    IF parent_component = NoParent THEN levels
    ELSE ancestor_walk(
            parent[parent_component], parent_component,
            IF adds_parent_entry(parent_component)
            THEN Append(IF partials = << >> THEN remove_child_dom(levels) ELSE levels,
                        parent_entry(parent_component, below, levels, root_element,
                                     rendered_component, request, partials, omitted))
            ELSE levels,
            root_element, rendered_component, request, partials, omitted)

\* get_data as a whole: RenderNotModifiedError, or the payload as its levels.
get_data(component, request, return_data, partials, omitted) ==
    IF /\ partials = << >>
       /\ render_unmodified(component, request, return_data)
       /\ raises_not_modified(component)
    THEN [ status |-> "RenderNotModifiedError", levels |-> << >> ]
    ELSE [ status |-> "returned",
           levels |-> ancestor_walk(
                parent[component], component,
                << base_result(component, request, return_data, partials) >>,
                IF partials # << >> THEN NoneMarkup
                ELSE stamped_root_element(component, request),
                IF partials # << >> THEN last_rendered_dom(component)
                ELSE html_element_to_string(stamped_root_element(component, request)),
                request, partials, omitted) ]

(***************************************************************************)
(* The external cache and UnicornView.create                                *)
(***************************************************************************)

\* No entry under a cache key.
Missing == [ present |-> FALSE, is_editing |-> FALSE, parent_is_editing |-> FALSE ]

\* The pickled component: its own fields and its copy of the parent's.
snapshot(component) ==
    [ present |-> TRUE,
      is_editing |-> is_editing[component],
      parent_is_editing |-> IF parent[component] = NoParent THEN FALSE
                            ELSE is_editing[parent[component]] ]

RECURSIVE subtree(_)
RECURSIVE subtree_of_children(_, _)
\* A component and all of its descendants, in pre-order.
subtree(component) == << component >> \o subtree_of_children(component, 1)
subtree_of_children(component, i) ==
    IF i > Len(children[component]) THEN << >>
    ELSE subtree(children[component][i]) \o subtree_of_children(component, i + 1)

Range(seq) == { seq[i] : i \in DOMAIN seq }

\* A persist step that writes the root alone.
cache_full_tree_root_only(root) ==
    [ cache EXCEPT ![root] = snapshot(root) ]

\* cacher.cache_full_tree(root): every component of the subtree is written
\* under its own cache key.
cache_full_tree(root) ==
    [ c \in DOMAIN cache |->
        IF c \in Range(subtree(root)) THEN snapshot(c) ELSE cache[c] ]

\* A create that leaves a restored child wired to the pickled parent copy.
create_keeping_cached_parent(component_id, live_parent) ==
    IF cache[component_id].present
    THEN [ component_id |-> component_id,
           is_editing |-> cache[component_id].is_editing,
           from_cache |-> TRUE,
           parent |-> [ kind |-> "copy", id |-> live_parent,
                        is_editing |-> cache[component_id].parent_is_editing ] ]
    ELSE [ component_id |-> component_id,
           is_editing |-> is_editing[component_id],
           from_cache |-> FALSE,
           parent |-> [ kind |-> "live", id |-> live_parent ] ]

\* UnicornView.create(component_id, parent=live_parent): the child restored
\* from the cache, or constructed when the cache has none, with its parent
\* link set to the object passed in.
create(component_id, live_parent) ==
    [ component_id |-> component_id,
      is_editing |-> IF cache[component_id].present
                     THEN cache[component_id].is_editing
                     ELSE is_editing[component_id],
      from_cache |-> cache[component_id].present,
      parent |-> [ kind |-> "live", id |-> live_parent ] ]

\* child.parent.is_editing, read through the parent link of a created child.
read_through_parent(child) ==
    IF child.parent.kind = "live" THEN is_editing[child.parent.id]
    ELSE child.parent.is_editing

(***************************************************************************)
(* State machine                                                           *)
(***************************************************************************)

NoResponse == [ status |-> "none" ]
Handling == [ step |-> "handling", component |-> NoParent ]

\* One root component, freshly constructed; nothing cached, nothing sent.
Init ==
    /\ parent = << NoParent >>
    /\ children = << << >> >>
    /\ calls = << << >> >>
    /\ force_render = << FALSE >>
    /\ is_editing = << FALSE >>
    /\ hash_caching \in BOOLEAN
    /\ response = NoResponse
    /\ cache = << Missing >>
    /\ pc = Handling
    /\ resolved = << >>

RECURSIVE SumLen(_, _)
SumLen(seqs, i) == IF i > Len(seqs) THEN 0 ELSE Len(seqs[i]) + SumLen(seqs, i + 1)

\* The calls pending in the whole tree.
PendingCalls == SumLen(calls, 1)

\* UnicornView(component_id=..., parent=p): the new component is appended to
\* its parent's children.
AddChild(p, limit) ==
    /\ pc.step = "handling"
    /\ Len(parent) < limit
    /\ parent' = Append(parent, p)
    /\ children' = Append([ children EXCEPT ![p] = Append(@, Len(parent) + 1) ], << >>)
    /\ calls' = Append(calls, << >>)
    /\ force_render' = Append(force_render, FALSE)
    /\ is_editing' = Append(is_editing, FALSE)
    /\ cache' = Append(cache, Missing)
    /\ UNCHANGED << hash_caching, response, pc, resolved >>

\* component.call(fn, *args) during action handling: one more pending call.
Call(component, limit) ==
    /\ pc.step = "handling"
    /\ PendingCalls < limit
    /\ calls' = [ calls EXCEPT ![component] =
                    Append(@, [ fn |-> "fn", args |-> << PendingCalls + 1 >> ]) ]
    /\ UNCHANGED << parent, children, force_render, is_editing, hash_caching,
                    response, cache, pc, resolved >>

\* component.force_render = True, as call_method does for $parent calls.
SetForceRender(component) ==
    /\ pc.step = "handling"
    /\ ~ force_render[component]
    /\ force_render' = [ force_render EXCEPT ![component] = TRUE ]
    /\ UNCHANGED << parent, children, calls, is_editing, hash_caching,
                    response, cache, pc, resolved >>

\* A method of the component that changes its own public field.
CallMethod(component) ==
    /\ pc.step = "handling"
    /\ ~ is_editing[component]
    /\ is_editing' = [ is_editing EXCEPT ![component] = TRUE ]
    /\ UNCHANGED << parent, children, calls, force_render, hash_caching,
                    response, cache, pc, resolved >>

\* ComponentResponse(component, request, return_data, partials).get_data()
GetData(component, request, return_data, partials, omitted) ==
    /\ pc.step = "handling"
    /\ response' = [ status |-> get_data(component, request, return_data,
                                         partials, omitted).status,
                     levels |-> get_data(component, request, return_data,
                                         partials, omitted).levels,
                     component |-> component,
                     request |-> request,
                     return_data |-> return_data,
                     partials |-> partials,
                     omitted |-> omitted ]
    /\ pc' = [ step |-> "responded", component |-> component ]
    /\ UNCHANGED << parent, children, calls, force_render, is_editing,
                    hash_caching, cache, resolved >>

\* cache_full_tree(root) outside a request: the state of the page load.
CacheFullTree(root) ==
    /\ pc.step = "handling"
    /\ parent[root] = NoParent
    /\ cache' = cache_full_tree(root)
    /\ UNCHANGED << parent, children, calls, force_render, is_editing,
                    hash_caching, response, pc, resolved >>

\* UnicornView.create(component_id=child, parent=<the live parent>)
Create(child) ==
    /\ pc.step = "handling"
    /\ parent[child] # NoParent
    /\ resolved' = << create(child, parent[child]) >>
    /\ UNCHANGED << parent, children, calls, force_render, is_editing,
                    hash_caching, response, cache, pc >>

\* The message request calls ParentView.begin_edit_all on the root: every
\* child of the root gets is_editing = True.
BeginEditAll(root) ==
    /\ pc.step = "handling"
    /\ parent[root] = NoParent
    /\ is_editing' = [ c \in DOMAIN is_editing |->
                         IF parent[c] = root THEN TRUE ELSE is_editing[c] ]
    /\ pc' = [ step |-> "called", component |-> root ]
    /\ UNCHANGED << parent, children, calls, force_render, hash_caching,
                    response, cache, resolved >>

\* The persist step of the request: the whole subtree goes to the cache.
PersistSubtree ==
    /\ pc.step = "called"
    /\ cache' = cache_full_tree(pc.component)
    /\ pc' = [ pc EXCEPT !.step = "persisted" ]
    /\ UNCHANGED << parent, children, calls, force_render, is_editing,
                    hash_caching, response, resolved >>

\* The root is rendered again: its template creates every child through the
\* cache, with the live root as the parent.
RenderRoot ==
    /\ pc.step = "persisted"
    /\ resolved' = [ i \in DOMAIN children[pc.component] |->
                       create(children[pc.component][i], pc.component) ]
    /\ pc' = [ pc EXCEPT !.step = "rendered" ]
    /\ UNCHANGED << parent, children, calls, force_render, is_editing,
                    hash_caching, response, cache >>

(***************************************************************************)
(* Inputs of get_data                                                      *)
(***************************************************************************)

NoReturn == [ present |-> FALSE, value |-> None, redirect |-> None, poll |-> None ]

\* The return-value wrappers: a method that returned None, a falsy value, a
\* truthy value, and a value that carries a redirect and a poll.
ReturnWrappers ==
    { NoReturn,
      [ present |-> TRUE, value |-> None, redirect |-> None, poll |-> None ],
      [ present |-> TRUE, value |-> "0", redirect |-> None, poll |-> None ],
      [ present |-> TRUE, value |-> "x", redirect |-> None, poll |-> None ],
      [ present |-> TRUE, value |-> "x", redirect |-> "/next", poll |-> "poll" ] }

\* The data and epoch of the request envelopes: empty data, and data whose
\* keys arrive out of order.
Envelopes ==
    { [ data |-> << >>, epoch |-> 1 ],
      [ data |-> << << "name", 1 >>, << "count", 0 >> >>, epoch |-> 2 ] }

\* The hash the client holds: the current content hash, or an older one.
ClientHashes(component) ==
    { rendered_component_hash(component), generate_checksum("stale") }

Requests(component) ==
    { [ id |-> component, data |-> e.data, epoch |-> e.epoch, hash |-> h ] :
        e \in Envelopes, h \in ClientHashes(component) }

Partials == { << >>, << "fragment" >> }

\* The acted-on component's template tag may be left out by its parent.
Omissions(component) ==
    { NoParent } \cup (IF parent[component] = NoParent THEN { } ELSE { component })

(***************************************************************************)
(* Specifications                                                          *)
(***************************************************************************)

\* The not-modified decision and the meta string: every request, return
\* wrapper and partials, at most one call pending.
Next ==
    \/ \E p \in Components : AddChild(p, MaxNodes)
    \/ \E c \in Components : SetForceRender(c)
    \/ \E c \in Components : Call(c, 1)
    \/ \E c \in Components : \E r \in Requests(c) : \E rd \in ReturnWrappers :
         \E ps \in Partials : GetData(c, r, rd, ps, NoParent)

Spec == Init /\ [][Next]_vars

\* The walk up the ancestors: changed fields, omitted template tags.
NextWalk ==
    \/ \E p \in Components : AddChild(p, MaxNodes)
    \/ \E c \in Components : SetForceRender(c)
    \/ \E c \in Components : CallMethod(c)
    \/ \E c \in Components : \E r \in Requests(c) : \E ps \in Partials :
         \E o \in Omissions(c) : GetData(c, r, NoReturn, ps, o)

SpecWalk == Init /\ [][NextWalk]_vars

\* The call collector: larger trees, several calls.
NextCalls ==
    \/ \E p \in Components : AddChild(p, MaxTreeNodes)
    \/ \E c \in Components : Call(c, MaxCalls)
    \/ \E c \in Components : \E r \in Requests(c) : \E ps \in Partials :
         GetData(c, r, NoReturn, ps, NoParent)

SpecCalls == Init /\ [][NextCalls]_vars

\* The tree cache: persist before render, create with a live parent.
NextCache ==
    \/ \E p \in Components : AddChild(p, MaxTreeNodes)
    \/ \E c \in Components : CallMethod(c)
    \/ \E c \in Components : CacheFullTree(c)
    \/ \E c \in Components : Create(c)
    \/ \E c \in Components : BeginEditAll(c)
    \/ PersistSubtree
    \/ RenderRoot

SpecCache == Init /\ [][NextCache]_vars

(***************************************************************************)
(* Properties                                                              *)
(***************************************************************************)

Responded == response.status # "none"
Returned == response.status = "returned"
Raised == response.status = "RenderNotModifiedError"
Acted == response.component
Payload == response.levels[1]

\* The checksum of the echoed request data.
DataChecksum == generate_checksum(sorted_dict(response.request.data))

\* The content checksum of the acted-on node: cached, else from the markup.
ContentChecksum ==
    IF content_hash_attr(Acted) # EmptyStr THEN content_hash_attr(Acted)
    ELSE generate_checksum(render(Acted, NoParent))

RECURSIVE HasPendingCall(_)
\* A call is pending on the node or on one of its descendants.
HasPendingCall(c) ==
    calls[c] # << >> \/ \E d \in DOMAIN parent : parent[d] = c /\ HasPendingCall(d)

\* Hash matches, nothing pending: all of the not-modified rule but the
\* returned value.
HashMatchesNothingPending ==
    /\ Responded
    /\ response.partials = << >>
    /\ response.request.hash = ContentChecksum
    /\ ~ HasPendingCall(Acted)

NotModifiedCase ==
    /\ HashMatchesNothingPending
    /\ (~ response.return_data.present \/ response.return_data.value = None)

Topmost == parent[Acted] = NoParent /\ force_render[Acted] = FALSE

\* C1: without partials, with the client hash equal to the node's content
\* checksum, no returned value and no call pending in the subtree, get_data
\* raises RenderNotModifiedError and builds no payload exactly when the node
\* has no parent and force_render is false; otherwise it returns a payload
\* with the dom and meta keys.
C1_NotModifiedIffTopmost ==
    NotModifiedCase =>
        /\ Raised <=> Topmost
        /\ Raised => response.levels = << >>
        /\ ~ Topmost =>
             /\ Returned
             /\ { "dom", "meta" } \subseteq DOMAIN Payload
             /\ Payload.meta[1] = DataChecksum

C1_Witness == NotModifiedCase /\ Raised /\ Len(parent) > 1

\* C7 as claimed: any wrapped value other than None, falsy ones included,
\* keeps get_data from raising RenderNotModifiedError.
C7_AnyValueSuppresses ==
    (Responded /\ response.return_data.present /\ response.return_data.value # None)
        => ~ Raised

\* C7: a truthy wrapped value keeps get_data from raising; a wrapped value
\* that is None or falsy leaves the short-circuit in force.
C7_TruthyValueSuppresses ==
    /\ (Responded /\ response.return_data.present /\ truthy(response.return_data.value))
         => ~ Raised
    /\ (HashMatchesNothingPending /\ Topmost /\ ~ truthy(response.return_data.value))
         => Raised

C7_Witness ==
    /\ HashMatchesNothingPending /\ Topmost
    /\ response.return_data.present /\ truthy(response.return_data.value)
    /\ Returned

\* The render was found unmodified and the payload is returned all the same.
UnmodifiedButReturned ==
    /\ Returned /\ HashMatchesNothingPending
    /\ ~ (response.return_data.present /\ truthy(response.return_data.value))

TwoPartMeta == << DataChecksum, EmptyStr, response.request.epoch >>
ThreePartMeta == << DataChecksum, ContentChecksum, response.request.epoch >>

\* C8 as claimed: the top-level meta is <dataChecksum>::<epoch> when the
\* render is unmodified but returned, <dataChecksum>:<contentChecksum>:<epoch>
\* otherwise.
C8_TwoPartWhenUnmodified ==
    Returned =>
        Payload.meta = IF UnmodifiedButReturned THEN TwoPartMeta ELSE ThreePartMeta

\* C8: the top-level meta is <dataChecksum>::<epoch> exactly when partials
\* are supplied, and <dataChecksum>:<contentChecksum>:<epoch> otherwise, the
\* unmodified-but-returned render included; the epoch is the request's.
C8_TwoPartOnlyWithPartials ==
    Returned =>
        Payload.meta = IF response.partials # << >> THEN TwoPartMeta ELSE ThreePartMeta

C8_Witness == UnmodifiedButReturned /\ Payload.meta = ThreePartMeta

RECURSIVE PathFrom(_, _)
\* The child indices that lead from `root` down to `c`.
PathFrom(root, c) ==
    IF c = root THEN << >>
    ELSE Append(PathFrom(root, parent[c]),
                CHOOSE i \in DOMAIN children[parent[c]] : children[parent[c]][i] = c)

RECURSIVE IsUnder(_, _)
IsUnder(root, c) ==
    c = root \/ (parent[c] # NoParent /\ IsUnder(root, parent[c]))

\* p comes before q in depth-first pre-order: a proper prefix, or smaller at
\* the first index where they differ.
PathBefore(p, q) ==
    \/ Len(p) < Len(q) /\ \A i \in DOMAIN p : p[i] = q[i]
    \/ \E k \in DOMAIN p \cap DOMAIN q :
         /\ p[k] < q[k]
         /\ \A i \in 1..(k - 1) : p[i] = q[i]

\* The node at position k of the pre-order of the subtree of `root`.
PreOrderAt(root, k) ==
    CHOOSE c \in DOMAIN parent :
        /\ IsUnder(root, c)
        /\ Cardinality({ d \in DOMAIN parent :
                           IsUnder(root, d) /\ PathBefore(PathFrom(root, d), PathFrom(root, c)) })
             = k - 1

RECURSIVE PreOrderCalls(_, _)
PreOrderCalls(root, k) ==
    IF k > Cardinality({ d \in DOMAIN parent : IsUnder(root, d) }) THEN << >>
    ELSE calls[PreOrderAt(root, k)] \o PreOrderCalls(root, k + 1)

\* C2: the calls of the payload are the pending calls of the subtree in
\* depth-first pre-order: the node's own, then each child's own followed by
\* its descendants', in child order, none dropped and none twice.
C2_CallsInPreOrder ==
    Returned => Payload.calls = PreOrderCalls(Acted, 1)

\* root -> A -> A1 and root -> B, where B called before A1 did: the payload
\* lists A1's call before B's.
C2_Witness ==
    /\ Returned /\ Acted = 1
    /\ parent = << NoParent, 1, 2, 1 >>
    /\ calls[3] # << >> /\ calls[4] # << >>
    /\ calls[4][1].args[1] < calls[3][1].args[1]
    /\ Payload.calls = calls[3] \o calls[4]

RECURSIVE ForcedAncestors(_)
\* The ancestors of c whose force_render is true, nearest first.
ForcedAncestors(c) ==
    IF parent[c] = NoParent THEN << >>
    ELSE (IF force_render[parent[c]] THEN << parent[c] >> ELSE << >>)
            \o ForcedAncestors(parent[c])

\* The data snapshot and the data checksum of an ancestor, as of now.
FrontendData(a) == << << "is_editing", is_editing[a] >> >>
ParentChecksum(a) == generate_checksum(ToString(FrontendData(a)))

\* The ancestor's fresh markup with its root stamped with its own checksum
\* and the elements of component `c` stamped with `meta`.
FreshMarkupStamped(a, c, meta) ==
    [ i \in DOMAIN render(a, response.omitted) |->
        IF i = 1 THEN [ uid |-> a, meta |-> ParentChecksum(a) ]
        ELSE IF render(a, response.omitted)[i].uid = c THEN [ uid |-> c, meta |-> meta ]
        ELSE render(a, response.omitted)[i] ]

ActedUnderForcedParent ==
    /\ Returned /\ response.partials = << >>
    /\ parent[Acted] # NoParent /\ force_render[parent[Acted]]

\* C3: a force_render parent above the acted-on child, no partials: the
\* top-level dom is null, and the dom of payload.parent is the parent's
\* fresh markup in which the element with the child's unicorn:id carries the
\* child's data checksum as unicorn:meta.
C3_ParentDomSupersedesChild ==
    ActedUnderForcedParent =>
        /\ Payload.dom = NoneMarkup
        /\ Len(response.levels) >= 2
        /\ response.levels[2].id = parent[Acted]
        /\ response.levels[2].dom
             = FreshMarkupStamped(parent[Acted], Acted, DataChecksum)
        /\ \A i \in DOMAIN response.levels[2].dom :
             response.levels[2].dom[i].uid = Acted
                => response.levels[2].dom[i].meta = DataChecksum

C3_Witness ==
    /\ ActedUnderForcedParent
    /\ is_editing[Acted]
    /\ \E i \in DOMAIN response.levels[2].dom :
         /\ response.levels[2].dom[i].uid = Acted
         /\ response.levels[2].dom[i].meta = DataChecksum

\* The entries of the nested "parent" chain name exactly the force_render
\* ancestors, nearest first.
ChainIsForcedAncestors ==
    /\ Len(response.levels) = 1 + Len(ForcedAncestors(Acted))
    /\ \A k \in DOMAIN ForcedAncestors(Acted) :
         response.levels[k + 1].id = ForcedAncestors(Acted)[k]

\* C6 as claimed: the chain holds exactly the force_render ancestors, bottom
\* up, and every entry carries the ancestor's id and its current data.
C6_EveryEntryHasData ==
    Returned =>
        /\ ChainIsForcedAncestors
        /\ \A k \in 2..Len(response.levels) :
             /\ "data" \in DOMAIN response.levels[k]
             /\ response.levels[k].data = FrontendData(response.levels[k].id)

\* C6: the chain holds exactly the force_render ancestors, bottom up, a
\* non-force_render ancestor being passed over; every entry carries the
\* ancestor's id, and its current data when no partials were supplied; with
\* partials an entry is the id and a two-part meta alone.
C6_EntryHasDataWithoutPartials ==
    Returned =>
        /\ ChainIsForcedAncestors
        /\ \A k \in 2..Len(response.levels) :
             IF response.partials = << >>
             THEN /\ "data" \in DOMAIN response.levels[k]
                  /\ response.levels[k].data = FrontendData(response.levels[k].id)
             ELSE /\ DOMAIN response.levels[k] = { "id", "meta" }
                  /\ response.levels[k].meta
                       = << ParentChecksum(response.levels[k].id), EmptyStr,
                            response.request.epoch >>

\* A force_render grandparent, changed by the action, above a parent that is
\* not force_render: its entry sits directly under the top level.
C6_Witness ==
    /\ Returned /\ response.partials = << >>
    /\ parent[Acted] # NoParent /\ ~ force_render[parent[Acted]]
    /\ parent[parent[Acted]] # NoParent /\ force_render[parent[parent[Acted]]]
    /\ is_editing[parent[parent[Acted]]]
    /\ Len(response.levels) = 2
    /\ response.levels[2].id = parent[parent[Acted]]
    /\ response.levels[2].data = << << "is_editing", TRUE >> >>

\* C9: without partials, every payload level below a re-rendered ancestor's
\* entry has a null dom: only the topmost rendered ancestor carries markup.
C9_OnlyTopmostLevelHasDom ==
    (Returned /\ response.partials = << >>) =>
        \A k \in 1..(Len(response.levels) - 1) :
            response.levels[k].dom = NoneMarkup

\* The node beneath ancestor `a` on the way down to the acted-on node.
NodeBeneath(a) ==
    CHOOSE c \in DOMAIN parent : parent[c] = a /\ IsUnder(c, Acted)

\* The meta stamped on a node's own root: the data checksum for the acted-on
\* node, its own checksum for a re-rendered ancestor.
StampedMeta(c) == IF c = Acted THEN DataChecksum ELSE ParentChecksum(c)

\* C10 as claimed: at every step of the walk the element stamped in the
\* ancestor's fresh markup is the one of the node immediately beneath it,
\* with that node's own stamped meta.
C10_StampsNodeBeneath ==
    (Returned /\ response.partials = << >>) =>
        \A k \in 2..Len(response.levels) :
            LET below == NodeBeneath(response.levels[k].id) IN
            (below = Acted \/ force_render[below]) =>
                response.levels[k].dom
                    = FreshMarkupStamped(response.levels[k].id, below, StampedMeta(below))

\* C10: at every step of the walk, the first and the later ones alike, the
\* elements stamped in the ancestor's fresh markup are those with the
\* acted-on node's unicorn:id, and the meta copied is the acted-on node's
\* data checksum; the elements of ancestors visited before stay as rendered;
\* when no element matches, only the root is stamped and the payload is
\* still returned.
C10_StampsActedOnNode ==
    (Responded /\ response.partials = << >>) =>
        /\ (~ NotModifiedCase \/ ~ Topmost) => Returned
        /\ Returned =>
             \A k \in 2..Len(response.levels) :
                response.levels[k].dom
                    = FreshMarkupStamped(response.levels[k].id, Acted, DataChecksum)

\* Two force_render ancestors: the grandparent's markup has the acted-on
\* node's element stamped, and the parent's element as rendered.
C10_Witness ==
    /\ Returned /\ response.partials = << >>
    /\ Len(response.levels) = 3
    /\ \E i \in DOMAIN response.levels[3].dom :
         /\ response.levels[3].dom[i].uid = Acted
         /\ response.levels[3].dom[i].meta = DataChecksum
    /\ \E i \in DOMAIN response.levels[3].dom :
         /\ response.levels[3].dom[i].uid = parent[Acted]
         /\ response.levels[3].dom[i].meta = render_meta(parent[Acted])

\* C4: once the persist step of a request on a root is done, and so before
\* and after the root is rendered again, the cache holds every node of the
\* subtree under its own key with its current state; the children the render
\* creates through the cache, and a cache read of any child afterwards, show
\* the state the root's method gave them.
C4_SubtreePersistedBeforeRender ==
    /\ pc.step \in { "persisted", "rendered" } =>
         \A d \in DOMAIN parent : IsUnder(pc.component, d) =>
             /\ cache[d].present
             /\ cache[d].is_editing = is_editing[d]
    /\ pc.step = "rendered" =>
         /\ Len(resolved) = Len(children[pc.component])
         /\ \A i \in DOMAIN resolved :
              /\ resolved[i].from_cache
              /\ resolved[i].is_editing = TRUE
              /\ cache[resolved[i].component_id].is_editing = TRUE

\* Three siblings, all read back from the cache as edited.
C4_Witness ==
    /\ pc.step = "rendered"
    /\ Len(children[pc.component]) >= 3
    /\ \A i \in DOMAIN resolved : resolved[i].is_editing
    /\ \A c \in DOMAIN parent : parent[c] = pc.component => cache[c].is_editing

\* C5: a child created with a live parent has that very object as its
\* parent, also when the child comes from the cache and the cache holds an
\* older copy of the parent; a field read through child.parent is the live
\* parent's current value.
C5_ParentIsLiveObject ==
    \A i \in DOMAIN resolved :
        /\ resolved[i].parent.kind = "live"
        /\ resolved[i].parent.id = parent[resolved[i].component_id]
        /\ read_through_parent(resolved[i]) = is_editing[parent[resolved[i].component_id]]

\* The child is restored from the cache, whose copy of the parent is older
\* than the live parent.
C5_Witness ==
    \E i \in DOMAIN resolved :
        /\ resolved[i].from_cache
        /\ cache[resolved[i].component_id].parent_is_editing = FALSE
        /\ is_editing[parent[resolved[i].component_id]] = TRUE
        /\ read_through_parent(resolved[i]) = TRUE

====
